---- MODULE Spec2Model ----
(***************************************************************************)
(* Lead-capture webhook: idempotent persistence of a lead (dedupe key with *)
(* a unique constraint) and best-effort mirroring of each new lead into an *)
(* external task tracker (parent task + subtasks, retried POSTs, write-back*)
(* of the external identifiers on the same row).                           *)
(*                                                                         *)
(* Text values are sequences of one-character strings, so that strip(),    *)
(* lower(), the dedupe-key formatting and the JSON codec of the list       *)
(* columns are computed character by character as the code computes them.  *)
(***************************************************************************)
EXTENDS Integers, Sequences, FiniteSets, TLC

\* Python's None for an optional text value: a value no text can equal.
None == <<"<None>">>

\* ------------------------------------------------------------------------
\* str.strip() / str.lower()
\* ------------------------------------------------------------------------
IsSpace(c) == c = " "

RECURSIVE lstrip(_)
lstrip(s) == IF s # <<>> /\ IsSpace(Head(s)) THEN lstrip(Tail(s)) ELSE s

RECURSIVE rstrip(_)
rstrip(s) ==
    IF s # <<>> /\ IsSpace(s[Len(s)]) THEN rstrip(SubSeq(s, 1, Len(s) - 1)) ELSE s

strip(s) == rstrip(lstrip(s))

LowerChar(c) ==
    CASE c = "A" -> "a"
      [] c = "B" -> "b"
      [] c = "X" -> "x"
      [] OTHER -> c

lower(s) == [i \in 1..Len(s) |-> LowerChar(s[i])]

\* Python truthiness of an Optional[str]: None and "" are falsy.
Truthy(s) == s # None /\ s # <<>>

\* ------------------------------------------------------------------------
\* json.dumps / json.loads of a list of strings (the list columns)
\* ------------------------------------------------------------------------
\* A serializer that does not escape.
JsonEscapeNone(s) == s

RECURSIVE JsonEscape(_)
JsonEscape(s) ==
    IF s = <<>> THEN <<>>
    ELSE (IF Head(s) = "\"" \/ Head(s) = "\\" THEN <<"\\", Head(s)>> ELSE <<Head(s)>>)
         \o JsonEscape(Tail(s))

JsonString(s) == <<"\"">> \o JsonEscape(s) \o <<"\"">>

RECURSIVE JsonItems(_)
JsonItems(list) ==
    IF list = <<>> THEN <<>>
    ELSE IF Len(list) = 1 THEN JsonString(list[1])
    ELSE JsonString(Head(list)) \o <<",", " ">> \o JsonItems(Tail(list))

json_dumps(list) == <<"[">> \o JsonItems(list) \o <<"]">>

\* A scanner for the arrays json_dumps writes; st is the scanner's position:
\* "start", "first" (after "["), "str" (inside a string), "esc" (after a
\* backslash), "after" (after a string), "next" (after a comma), "end".
\* The result is [ok |-> BOOLEAN, value |-> list]; ok = FALSE is
\* json.JSONDecodeError.
RECURSIVE JsonScan(_, _, _, _, _)
JsonScan(s, i, st, cur, acc) ==
    IF i > Len(s) THEN [ok |-> st = "end", value |-> acc]
    ELSE LET c == s[i] IN
      CASE st = "start" ->
             IF c = "[" THEN JsonScan(s, i + 1, "first", cur, acc)
             ELSE IF IsSpace(c) THEN JsonScan(s, i + 1, st, cur, acc)
             ELSE [ok |-> FALSE, value |-> <<>>]
        [] st = "first" ->
             IF c = "]" THEN JsonScan(s, i + 1, "end", cur, acc)
             ELSE IF c = "\"" THEN JsonScan(s, i + 1, "str", <<>>, acc)
             ELSE IF IsSpace(c) THEN JsonScan(s, i + 1, st, cur, acc)
             ELSE [ok |-> FALSE, value |-> <<>>]
        [] st = "next" ->
             IF c = "\"" THEN JsonScan(s, i + 1, "str", <<>>, acc)
             ELSE IF IsSpace(c) THEN JsonScan(s, i + 1, st, cur, acc)
             ELSE [ok |-> FALSE, value |-> <<>>]
        [] st = "str" ->
             IF c = "\\" THEN JsonScan(s, i + 1, "esc", cur, acc)
             ELSE IF c = "\"" THEN JsonScan(s, i + 1, "after", <<>>, Append(acc, cur))
             ELSE JsonScan(s, i + 1, "str", Append(cur, c), acc)
        [] st = "esc" ->
             IF c = "\"" \/ c = "\\" THEN JsonScan(s, i + 1, "str", Append(cur, c), acc)
             ELSE [ok |-> FALSE, value |-> <<>>]
        [] st = "after" ->
             IF c = "," THEN JsonScan(s, i + 1, "next", cur, acc)
             ELSE IF c = "]" THEN JsonScan(s, i + 1, "end", cur, acc)
             ELSE IF IsSpace(c) THEN JsonScan(s, i + 1, st, cur, acc)
             ELSE [ok |-> FALSE, value |-> <<>>]
        [] OTHER ->
             IF IsSpace(c) THEN JsonScan(s, i + 1, st, cur, acc)
             ELSE [ok |-> FALSE, value |-> <<>>]

json_loads(s) == JsonScan(s, 1, "start", <<>>, <<>>)

\* Lead.intereses_servicios / Lead.external_subtask_ids: the setter stores
\* json.dumps(value or []); the getter returns json.loads(column) when the
\* column is truthy and [] when it is empty, None or not valid JSON.
ListSetter(value) == json_dumps(value)

ListGetter(column) ==
    IF ~Truthy(column) THEN <<>>
    ELSE LET r == json_loads(column) IN IF r.ok THEN r.value ELSE <<>>

\* ------------------------------------------------------------------------
\* Request schema (LeadCreate) and the webhook's normalisation
\* ------------------------------------------------------------------------
Count(s, c) == Cardinality({i \in 1..Len(s) : s[i] = c})

AtIndex(s) == CHOOSE i \in 1..Len(s) : s[i] = "@"

\* EmailStr: the validator strips the input, accepts one "@" between a
\* non-empty local part and a non-empty domain without blanks, and returns
\* the address with the domain lower-cased (the local part keeps its case).
\* The domain grammar is reduced to "non-empty, no blank".
EmailStr(s) ==
    LET v == strip(s) IN
    IF Count(v, "@") = 1 /\ Count(v, " ") = 0
       /\ AtIndex(v) > 1 /\ AtIndex(v) < Len(v)
    THEN [ok |-> TRUE,
          value |-> SubSeq(v, 1, AtIndex(v)) \o lower(SubSeq(v, AtIndex(v) + 1, Len(v)))]
    ELSE [ok |-> FALSE, value |-> v]

\* LeadCreate(**fields): nombre has min_length 1 (blanks count), correo is an
\* EmailStr, the other fields are free.  ok = FALSE is pydantic's
\* ValidationError.
LeadCreate(p) ==
    IF Len(p.nombre) >= 1 /\ EmailStr(p.correo).ok
    THEN [ok |-> TRUE, data |-> [p EXCEPT !.correo = EmailStr(p.correo).value]]
    ELSE [ok |-> FALSE, data |-> p]

StripEach(list) == [i \in 1..Len(list) |-> strip(list[i])]

OptStrip(v) == IF Truthy(v) THEN strip(v) ELSE None

\* receive_webhook builds a second LeadCreate from the validated payload.
Normalized(payload) ==
    LeadCreate([nombre |-> strip(payload.nombre),
                correo |-> lower(strip(payload.correo)),
                telefono |-> OptStrip(payload.telefono),
                intereses_servicios |-> StripEach(payload.intereses_servicios),
                mensaje |-> OptStrip(payload.mensaje)])

\* The shared-secret test of receive_webhook; header = None when absent.
\* The test of the secret without the test for an empty secret.
AuthorizedHeaderEquals(secret, header) == header = secret

\* The test of the secret without the comparison with the header.
AuthorizedAnyHeader(secret, header) == ~(secret = <<>>)

Authorized(secret, header) == ~(secret = <<>> \/ header # secret)

\* ------------------------------------------------------------------------
\* Clock and dedupe key
\* ------------------------------------------------------------------------
DigitChars == <<"0", "1", "2", "3", "4", "5", "6", "7", "8", "9">>

\* The clock counts half days from 2025-01-01T00:00Z.
DayOf(t) == 1 + (t \div 2)

\* datetime.utcnow().strftime("%Y%m%d")
yyyymmdd(t) ==
    <<"2", "0", "2", "5", "0", "1">>
      \o <<DigitChars[(DayOf(t) \div 10) + 1], DigitChars[(DayOf(t) % 10) + 1]>>

\* hashlib.sha256(raw).hexdigest(): a collision-free digest, written as the
\* text it digests.
sha256_hexdigest(raw) == raw

\* A key made of the date and the name only.
generate_dedupe_key_no_email(data, t) ==
    sha256_hexdigest(yyyymmdd(t) \o <<"|">> \o strip(data.nombre))

\* A key made of the address and the name only.
generate_dedupe_key_no_date(data, t) ==
    sha256_hexdigest(lower(strip(data.correo)) \o <<"|">> \o strip(data.nombre))

generate_dedupe_key(data, t) ==
    LET correo == lower(strip(data.correo))
        nombre == strip(data.nombre)
    IN sha256_hexdigest(correo \o <<"|">> \o yyyymmdd(t) \o <<"|">> \o nombre)

\* ------------------------------------------------------------------------
\* External task client (ClickUpClient)
\* ------------------------------------------------------------------------
\* The default of the constructor's max_retries parameter.
DefaultMaxRetries == 3

\* A schedule with a fourth, longer delay.
backoffs_four == <<500, 2000, 5000, 8000>>

\* backoffs = [0.5, 2.0, 5.0] seconds, in milliseconds.
backoffs == <<500, 2000, 5000>>

Min(a, b) == IF a < b THEN a ELSE b

\* ClickUpClient.__init__
ClickUpClient(token, list_id, max_retries) ==
    [token |-> strip(token), list_id |-> strip(list_id), max_retries |-> max_retries]

\* A configuration test that is content with either value.
is_configured_either(client) == client.token # <<>> \/ client.list_id # <<>>

is_configured(client) == client.token # <<>> /\ client.list_id # <<>>

\* What one POST attempt meets.  net = "ok": a response with a status code and
\* a body; otherwise httpx raised an HTTPError (time-out, connection refused).
\* Bodies of a 2xx response: "task" (an object with id and url), "noid" (an
\* object without id), "list" (valid JSON that is not an object),
\* "malformed" (not JSON).
HttpResponse(status, body) == [net |-> "ok", status |-> status, body |-> body]

NetworkError(kind) == [net |-> kind, status |-> 0, body |-> "-"]

Responses ==
    {HttpResponse(200, b) : b \in {"task", "noid", "list", "malformed"}}
      \cup {HttpResponse(201, "task")}
      \cup {HttpResponse(s, "-") : s \in {302, 400, 429, 500, 503}}
      \cup {NetworkError(k) : k \in {"timeout", "connect"}}

Is2xx(resp) == resp.net = "ok" /\ 200 <= resp.status /\ resp.status < 300

\* A retry test that retries every status that is not 2xx.
IsRetryableStatusAny(resp) == resp.net = "ok"

\* A retry test that leaves out HTTP 429.
IsRetryableStatus5xxOnly(resp) ==
    resp.net = "ok" /\ 500 <= resp.status /\ resp.status < 600

IsRetryableStatus(resp) ==
    resp.net = "ok" /\ (resp.status = 429 \/ (500 <= resp.status /\ resp.status < 600))

\* resp.json(): ok = FALSE is the decode error of a body that is not JSON.
ResponseJson(resp) ==
    [ok |-> resp.body # "malformed" /\ resp.body # "-", body |-> resp.body]

\* The for-loop of _post_with_retries from `attempt` on.  resps[i] is what the
\* i-th POST meets; trace collects <<"POST", attempt>> and <<"SLEEP", ms>> in
\* the order the code performs them.  kind is "return" (data = parsed body),
\* "ClickUpError" (attempts = the count the message states, last_exc = the
\* network error the message appends, "-" when none) or "JSONDecodeError"
\* (resp.json() raised: not an httpx.HTTPError, so it leaves the loop).
RECURSIVE PostLoop(_, _, _, _, _)
PostLoop(max_retries, resps, attempt, last_exc, trace) ==
    IF attempt > max_retries
    THEN [kind |-> "ClickUpError", data |-> "-", attempts |-> max_retries,
          last_exc |-> last_exc, trace |-> trace]
    ELSE
      LET resp == resps[attempt]
          posted == Append(trace, <<"POST", attempt>>)
          slept == IF attempt < max_retries
                   THEN Append(posted, <<"SLEEP", backoffs[Min(attempt - 1, Len(backoffs) - 1) + 1]>>)
                   ELSE posted
      IN IF resp.net # "ok"
         THEN PostLoop(max_retries, resps, attempt + 1, resp.net, slept)
         ELSE IF Is2xx(resp)
         THEN IF ResponseJson(resp).ok
              THEN [kind |-> "return", data |-> ResponseJson(resp).body,
                    attempts |-> attempt, last_exc |-> last_exc, trace |-> posted]
              ELSE [kind |-> "JSONDecodeError", data |-> "-", attempts |-> attempt,
                    last_exc |-> last_exc, trace |-> posted]
         ELSE IF IsRetryableStatus(resp)
         THEN PostLoop(max_retries, resps, attempt + 1, last_exc, slept)
         ELSE [kind |-> "ClickUpError", data |-> "-", attempts |-> max_retries,
               last_exc |-> last_exc, trace |-> posted]

post_with_retries(max_retries, resps) == PostLoop(max_retries, resps, 1, "-", <<>>)

\* What the configuration gate of create_task returns without any I/O.
Skipped ==
    [kind |-> "return", data |-> "skipped", attempts |-> 0, last_exc |-> "-",
     trace |-> <<>>]

\* create_task: the configuration gate, then the retried POST; `posted` is
\* the result of _post_with_retries for the responses the call meets.
create_task(client, posted) == IF ~is_configured(client) THEN Skipped ELSE posted


\* One answer per attempt the loop may make.
RespSeqs(max_retries) == [1..max_retries -> Responses]

\* The largest max_retries a client is constructed with: beyond the length
\* of the backoff schedule, so that the index into it is capped.
MaxBudget == 5

\* For the retry budgets above the default, one response of each class the
\* loop tells apart: retryable status, network error, non-retryable status,
\* success.
FewResponses ==
    {HttpResponse(500, "-"), NetworkError("timeout"), HttpResponse(400, "-"),
     HttpResponse(200, "task")}

UnitRespSeqs(max_retries) ==
    IF max_retries <= DefaultMaxRetries
    THEN RespSeqs(max_retries)
    ELSE [1..max_retries -> FewResponses]

\* What the caller of create_task observes of a result: the returned body or
\* the class of the exception.
Observed(result) == [kind |-> result.kind, data |-> result.data]

\* Everything a caller can observe of _post_with_retries with the default
\* max_retries, over all sequences of responses.
DefaultPostResults ==
    {Observed(post_with_retries(DefaultMaxRetries, rs)) : rs \in RespSeqs(DefaultMaxRetries)}

\* The JSON body create_task posts: name, and description / due_date / parent
\* only when given (a falsy parent is left out).
TaskPayload(name, description, due_date_ms, parent) ==
    [name |-> name, description |-> description, due_date |-> due_date_ms,
     parent |-> IF Truthy(parent) THEN parent ELSE None]

\* ------------------------------------------------------------------------
\* Settings and inputs
\* ------------------------------------------------------------------------
Settings(secret, token, list_id, subtasks) ==
    [FORM_SHARED_SECRET |-> secret, CLICKUP_TOKEN |-> token,
     CLICKUP_LIST_ID |-> list_id, SUBTASKS |-> subtasks]

\* The environments the service is started in: fully configured with two
\* subtask titles; an empty shared secret and a blank token; an empty list
\* id; a SUBTASKS value without any title.
SettingsSet ==
    {Settings(<<"s">>, <<"t">>, <<"9">>, <<"a", ";", " ", "b">>),
     Settings(<<>>, <<" ">>, <<"9">>, <<"a", ";", " ", "b">>),
     Settings(<<"s">>, <<"t">>, <<>>, <<"a", ";", " ", "b">>),
     Settings(<<"s">>, <<"t">>, <<"9">>, <<";">>)}

Payload(nombre, correo, telefono, intereses, mensaje) ==
    [nombre |-> nombre, correo |-> correo, telefono |-> telefono,
     intereses_servicios |-> intereses, mensaje |-> mensaje]

\* Request bodies: a plain lead; the same lead with blanks and capitals and
\* another phone, interests and message; a lead with another address; a name
\* made of a blank; an address that is not one.
Plain == Payload(<<"A", "n">>, <<"a", "@", "x">>, None, <<>>, None)

Padded ==
    Payload(<<" ", "A", "n", " ">>, <<" ", "A", "@", "X", " ">>, <<"1", " ">>,
            << <<" ", "r">>, <<"d">> >>, <<"m">>)

Other == Payload(<<"A", "n">>, <<"b", "@", "x">>, None, << <<"d">>, <<"\"", "r">> >>, None)

BlankName == Payload(<<" ">>, <<"a", "@", "x">>, None, <<>>, None)

BadEmail == Payload(<<"A", "n">>, <<"a", "x">>, None, <<>>, None)

\* Webhook requests, as <<X-Form-Secret, body>>: every body with the secret
\* "s"; the plain body with the header absent, empty and wrong; the invalid
\* body with a wrong header.
WebhookInputs ==
    {<<(<<"s">>), p>> : p \in {Plain, Padded, Other, BlankName, BadEmail}}
      \cup {<<h, Plain>> : h \in {None, <<>>, <<"w">>}}
      \cup {<< <<"w">>, BadEmail>>}

\* Arguments of direct calls of create_or_get_lead (each validates as
\* LeadCreate).
DirectInputs == {Padded, Other, BlankName}

\* Number of deliveries (webhook requests or direct calls) in a run.
NumReq == 2

\* Last tick of the clock.
MaxNow == 2

Req == 1..NumReq

\* ------------------------------------------------------------------------
\* Store (table leads) and the Lead object
\* ------------------------------------------------------------------------
NoLead == [id |-> 0]

\* A Lead built with the address as given.
NewLeadAsGiven(data, dedupe_key, t) ==
    [id |-> 0, nombre |-> data.nombre, correo |-> data.correo,
     telefono |-> data.telefono, mensaje |-> data.mensaje,
     intereses_servicios_json |-> ListSetter(data.intereses_servicios),
     dedupe_key |-> dedupe_key, created_at |-> t, updated_at |-> t,
     external_task_id |-> None, external_subtask_ids_json |-> None,
     external_task_url |-> None, status_api |-> None]

\* Lead(...) as create_or_get_lead builds it, before the insert assigns id.
NewLead(data, dedupe_key, t) ==
    [id |-> 0,
     created_at |-> t,
     updated_at |-> t,
     nombre |-> data.nombre,
     correo |-> lower(data.correo),
     telefono |-> data.telefono,
     intereses_servicios_json |-> ListSetter(data.intereses_servicios),
     mensaje |-> data.mensaje,
     dedupe_key |-> dedupe_key,
     external_task_id |-> None,
     external_subtask_ids_json |-> None,
     external_task_url |-> None,
     status_api |-> None]

Rows(table) == {table[i] : i \in 1..Len(table)}

MaxId(table) ==
    IF table = <<>> THEN 0
    ELSE CHOOSE m \in {row.id : row \in Rows(table)} : \A row \in Rows(table) : row.id <= m

\* A unique index that was put on correo.
UniqueViolationOnEmail(table, lead) == \E row \in Rows(table) : row.correo = lead.correo

\* A unique index that was put on (dedupe_key, created_at).
UniqueViolationWithTimestamp(table, lead) ==
    \E i \in DOMAIN table :
      table[i].dedupe_key = lead.dedupe_key /\ table[i].created_at = lead.created_at

\* A table without the unique index on dedupe_key.
UniqueViolationUnindexed(table, lead) == FALSE

\* The unique constraint on dedupe_key: the INSERT raises IntegrityError when
\* a committed row holds the key.
UniqueViolation(table, lead) == \E row \in Rows(table) : row.dedupe_key = lead.dedupe_key

\* db.add(lead); db.commit(); db.refresh(lead): the row as stored.
Inserted(table, lead) == [lead EXCEPT !.id = MaxId(table) + 1]

\* select(Lead).where(Lead.dedupe_key == key).limit(1)
SelectByKey(table, key) ==
    IF \E row \in Rows(table) : row.dedupe_key = key
    THEN CHOOSE row \in Rows(table) : row.dedupe_key = key
    ELSE NoLead

\* The fallback ordered by created_at ascending.
SelectOldestByEmail(table, correo) ==
    LET same == {row \in Rows(table) : row.correo = correo} IN
    IF same = {} THEN NoLead
    ELSE CHOOSE row \in same :
           \A other \in same :
              row.created_at < other.created_at
                \/ (other.created_at = row.created_at /\ row.id <= other.id)

\* select(Lead).where(Lead.correo == correo).order_by(created_at.desc()).limit(1)
SelectLatestByEmail(table, correo) ==
    LET same == {row \in Rows(table) : row.correo = correo} IN
    IF same = {} THEN NoLead
    ELSE CHOOSE row \in same :
           \A other \in same :
              other.created_at < row.created_at
                \/ (other.created_at = row.created_at /\ other.id <= row.id)

\* LeadResponse.model_validate(lead_obj): the public projection.
LeadResponse(lead) ==
    [id |-> lead.id, nombre |-> lead.nombre, correo |-> lead.correo,
     telefono |-> lead.telefono,
     intereses_servicios |-> ListGetter(lead.intereses_servicios_json),
     mensaje |-> lead.mensaje, created_at |-> lead.created_at,
     updated_at |-> lead.updated_at]

\* ------------------------------------------------------------------------
\* Sync orchestrator helpers
\* ------------------------------------------------------------------------
RECURSIVE SplitFrom(_, _, _, _)
SplitFrom(s, sep, cur, acc) ==
    IF s = <<>> THEN Append(acc, cur)
    ELSE IF Head(s) = sep THEN SplitFrom(Tail(s), sep, <<>>, Append(acc, cur))
    ELSE SplitFrom(Tail(s), sep, Append(cur, Head(s)), acc)

\* str.split(sep)
split(s, sep) == SplitFrom(s, sep, <<>>, <<>>)

NonEmpty(part) == part # <<>>

DefaultSubtasks ==
    << <<"Contactar lead (24h)">>, <<"Enviar información">>,
       <<"Proponer 3 horarios">>, <<"Agendar reunión inicial">> >>

subtasks_from_env(s) ==
    LET raw == strip(s.SUBTASKS) IN
    IF raw = <<>> THEN DefaultSubtasks
    ELSE SelectSeq(StripEach(split(raw, ";")), NonEmpty)

\* ClickUpClient.from_settings()
from_settings(s) == ClickUpClient(s.CLICKUP_TOKEN, s.CLICKUP_LIST_ID, DefaultMaxRetries)

RECURSIVE Join(_, _)
Join(list, sep) ==
    IF list = <<>> THEN <<>>
    ELSE IF Len(list) = 1 THEN list[1]
    ELSE Head(list) \o sep \o Join(Tail(list), sep)

OrDash(v) == IF Truthy(v) THEN v ELSE <<"-">>

task_name(lead) == <<"Nuevo lead: ">> \o lead.nombre

descripcion(lead) ==
    LET list == ListGetter(lead.intereses_servicios_json)
        intereses == IF list # <<>> THEN Join(list, <<",", " ">>) ELSE <<"-">>
    IN <<"**Nombre:** ">> \o lead.nombre \o <<"\n">>
         \o <<"**Correo:** ">> \o lead.correo \o <<"\n">>
         \o <<"**Teléfono:** ">> \o OrDash(lead.telefono) \o <<"\n">>
         \o <<"**Intereses:** ">> \o intereses \o <<"\n">>
         \o <<"**Mensaje:** ">> \o OrDash(lead.mensaje) \o <<"\n">>

\* No due date.
NoDue == -1

\* A due date without the 24 hours.
due_now(t) == t * 43200000

\* _epoch_ms(now + 24 h): one clock tick is half a day, 43 200 000 ms.
due_in_24h(t) == (t + 2) * 43200000

\* body.get("id") / body.get("url") of a parsed 2xx body; the tracker names
\* a task after the request that created it.
BodyId(body, request) == IF body = "task" THEN <<"#">> \o request.name ELSE None

BodyUrl(body, request) ==
    IF body = "noid" THEN None ELSE <<"https://t/">> \o request.name

\* The identifier taken as it comes, without the default.
StrOrEmptyNoDefault(id) == id

\* str(sub.get("id") or "")
StrOrEmpty(id) == IF id = None THEN <<>> ELSE id

\* ------------------------------------------------------------------------
\* State
\* ------------------------------------------------------------------------
VARIABLES
    scenario,   \* "app": the service handles deliveries; "unit": a client is
                \* exercised on its own, outside the service
    settings,   \* the Settings the process was started with
    now,        \* the UTC clock, in half days
    leads,      \* table leads: the committed rows, in insertion order
    req,        \* per delivery: position, input, Lead object, result, sync state
    unit        \* the stand-alone client call: its client, responses, result

vars == <<scenario, settings, now, leads, req, unit>>

\* A delivery's record: pc is "idle", "conflict" (IntegrityError caught),
\* "sync", "subtasks", "writeback" or "done"; via is "webhook" or "direct";
\* at is the clock at arrival and after the deliveries that had ended by
\* then; key is the dedupe key once create_or_get_lead has computed it; lead
\* is the Lead object the call holds; result is "returned" or "raised" once
\* create_or_get_lead has ended; status is the HTTP status of a webhook
\* request; session is the state of the SQLAlchemy session; sync is how the
\* sync ended ("skipped", "ok", "ClickUpError", "Exception"); calls are the
\* requests sent to the tracker; parent_id, parent_url, sub_ids and due_ms
\* are the locals of _maybe_create_clickup_items.

IdleReq ==
    [pc |-> "idle", via |-> "-", header |-> None,
     payload |-> Payload(<<>>, <<>>, None, <<>>, None),
     at |-> 0, after |-> {},
     key |-> None, lead |-> NoLead, created |-> FALSE,
     result |-> "-", status |-> 0, session |-> "active",
     sync |-> "-", calls |-> <<>>, parent_id |-> None, parent_url |-> None,
     sub_ids |-> <<>>, due_ms |-> NoDue]

IdleUnit == [phase |-> "idle"]

Init ==
    /\ scenario \in {"app", "unit"}
    /\ settings \in SettingsSet
    /\ scenario = "unit" => settings = Settings(<<"s">>, <<"t">>, <<"9">>, <<";">>)
    /\ now = 0
    /\ leads = <<>>
    /\ req = [r \in Req |-> IdleReq]
    /\ unit = IdleUnit

\* ------------------------------------------------------------------------
\* receive_webhook and create_or_get_lead
\* ------------------------------------------------------------------------
\* What stops a webhook request before create_or_get_lead is called: 422 when
\* the body does not validate as LeadCreate (the framework, before the
\* handler), 401 from the secret test, 500 when the LeadCreate built from the
\* stripped fields does not validate; 0 when nothing stops it.
WebhookGate(secret, header, payload) ==
    IF ~LeadCreate(payload).ok THEN 422
    ELSE IF ~Authorized(secret, header) THEN 401
    ELSE IF ~Normalized(LeadCreate(payload).data).ok THEN 500
    ELSE 0

\* The LeadCreate handed to create_or_get_lead.
DataOf(via, payload) ==
    IF via = "webhook" THEN Normalized(LeadCreate(payload).data).data
    ELSE LeadCreate(payload).data

\* The end of a delivery that returned from create_or_get_lead: the webhook
\* validates the Lead into a LeadResponse, which reads the object's
\* attributes (an expired object of an inactive session cannot be read), and
\* answers 201 when created, else 200.
Respond(rec) ==
    [rec EXCEPT
       !.pc = "done",
       !.result = "returned",
       !.parent_id = None, !.parent_url = None, !.sub_ids = <<>>, !.due_ms = NoDue,
       !.status = IF rec.via # "webhook" THEN 0
                  ELSE IF rec.session = "inactive" THEN 500
                  ELSE IF rec.created THEN 201 ELSE 200]

\* A delivery arrives and runs up to the commit of the insert.
Deliver(r, via, header, payload) ==
    /\ scenario = "app"
    /\ req[r].pc = "idle"
    /\ via = "direct" => (header = None /\ LeadCreate(payload).ok)
    /\ LET gate == IF via = "webhook"
                   THEN WebhookGate(settings.FORM_SHARED_SECRET, header, payload)
                   ELSE 0
           rec == [req[r] EXCEPT !.via = via, !.header = header, !.payload = payload,
                                 !.at = now,
                                 !.after = {q \in Req : req[q].pc = "done"}]
       IN IF gate # 0
          THEN /\ req' = [req EXCEPT ![r] = [rec EXCEPT !.pc = "done", !.status = gate]]
               /\ UNCHANGED leads
          ELSE LET data == DataOf(via, payload)
                   key == generate_dedupe_key(data, now)
                   lead == NewLead(data, key, now)
               IN IF UniqueViolation(leads, lead)
                  THEN /\ req' = [req EXCEPT ![r] =
                                    [rec EXCEPT !.pc = "conflict", !.key = key]]
                       /\ UNCHANGED leads
                  ELSE /\ leads' = Append(leads, Inserted(leads, lead))
                       /\ req' = [req EXCEPT ![r] =
                                    [rec EXCEPT !.pc = "sync", !.key = key,
                                                !.lead = Inserted(leads, lead),
                                                !.created = TRUE]]
    /\ UNCHANGED <<scenario, settings, now, unit>>

\* A duplicate that falls through to the sync.
ReturnExistingThenSync(rec, existing) == [rec EXCEPT !.lead = existing, !.pc = "sync"]

\* return existing, False
ReturnExisting(rec, existing) == Respond([rec EXCEPT !.lead = existing])

\* A conflict resolved as an upsert: the row of the key takes the phone,
\* interests and message of the duplicate.
ResolveConflictUpsert(r) ==
    /\ scenario = "app"
    /\ req[r].pc = "conflict"
    /\ \E i \in DOMAIN leads :
         /\ leads[i].dedupe_key = req[r].key
         /\ LET data == DataOf(req[r].via, req[r].payload)
                row == [leads[i] EXCEPT
                          !.telefono = data.telefono,
                          !.mensaje = data.mensaje,
                          !.intereses_servicios_json = ListSetter(data.intereses_servicios)]
            IN /\ leads' = [leads EXCEPT ![i] = row]
               /\ req' = [req EXCEPT ![r] = ReturnExisting(req[r], row)]
    /\ UNCHANGED <<scenario, settings, now, unit>>

\* After IntegrityError and rollback: the row with the key, else the latest
\* row with the address, else the error is raised again.
ResolveConflict(r) ==
    /\ scenario = "app"
    /\ req[r].pc = "conflict"
    /\ LET rec == req[r]
           existing == SelectByKey(leads, rec.key)
           fallback == SelectLatestByEmail(leads, lower(DataOf(rec.via, rec.payload).correo))
       IN req' = [req EXCEPT ![r] =
            IF existing # NoLead THEN ReturnExisting(rec, existing)
            ELSE IF fallback # NoLead THEN ReturnExisting(rec, fallback)
            ELSE [rec EXCEPT !.pc = "done", !.result = "raised",
                             !.status = IF rec.via = "webhook" THEN 500 ELSE 0]]
    /\ UNCHANGED <<scenario, settings, now, leads, unit>>

\* ------------------------------------------------------------------------
\* _maybe_create_clickup_items
\* ------------------------------------------------------------------------
\* The outcome of one create_task call inside the try block, as the
\* orchestrator sees it: "ClickUpError" and "Exception" end the sync in the
\* two except clauses (a body that is not JSON raises in resp.json(), a JSON
\* body that is not an object raises at .get), "skipped" is the defensive
\* re-check, "task" lets the sync go on.
CallOutcome(out) ==
    CASE out.kind = "ClickUpError" -> "ClickUpError"
      [] out.kind = "JSONDecodeError" -> "Exception"
      [] out.data = "list" -> "Exception"
      [] out.data = "skipped" -> "skipped"
      [] OTHER -> "task"

\* The requests a delivery has sent to the tracker: one entry per create_task
\* call that passed the configuration gate and so reached the network.
Logged(rec, request, out) ==
    IF out = Skipped THEN rec ELSE [rec EXCEPT !.calls = Append(@, request)]

\* The configuration check, then the parent task.
CreateParent(r) ==
    /\ scenario = "app"
    /\ req[r].pc = "sync"
    /\ LET rec == req[r]
           client == from_settings(settings)
           request == TaskPayload(task_name(rec.lead), descripcion(rec.lead), NoDue, None)
       IN IF ~is_configured(client)
          THEN req' = [req EXCEPT ![r] = Respond([rec EXCEPT !.sync = "skipped"])]
          ELSE \E posted \in DefaultPostResults :
                 LET out == create_task(client, posted)
                     rec1 == Logged(rec, request, out)
                     subtasks == subtasks_from_env(settings)
                 IN req' = [req EXCEPT ![r] =
                      IF CallOutcome(out) # "task"
                      THEN Respond([rec1 EXCEPT !.sync = CallOutcome(out)])
                      ELSE [rec1 EXCEPT
                              !.parent_id = BodyId(out.data, request),
                              !.parent_url = BodyUrl(out.data, request),
                              !.due_ms = IF subtasks # <<>> THEN due_in_24h(now) ELSE NoDue,
                              !.pc = IF subtasks # <<>> THEN "subtasks" ELSE "writeback"]]
    /\ UNCHANGED <<scenario, settings, now, leads, unit>>

\* The next subtask of the list, as a child of the parent.
CreateSubtask(r) ==
    /\ scenario = "app"
    /\ req[r].pc = "subtasks"
    /\ LET rec == req[r]
           client == from_settings(settings)
           subtasks == subtasks_from_env(settings)
           idx == Len(rec.sub_ids) + 1
           request == TaskPayload(subtasks[idx], None,
                                  IF idx = 1 THEN rec.due_ms ELSE NoDue, rec.parent_id)
       IN \E posted \in DefaultPostResults :
            LET out == create_task(client, posted)
                rec1 == Logged(rec, request, out)
            IN req' = [req EXCEPT ![r] =
                 IF CallOutcome(out) # "task"
                 THEN Respond([rec1 EXCEPT !.sync = CallOutcome(out)])
                 ELSE [rec1 EXCEPT
                         !.sub_ids = Append(@, StrOrEmpty(BodyId(out.data, request))),
                         !.pc = IF idx = Len(subtasks) THEN "writeback" ELSE "subtasks"]]
    /\ UNCHANGED <<scenario, settings, now, leads, unit>>

\* A write-back that sets the parent identifier and forgets the list.
WrittenBackParentOnly(row, parent_id, sub_ids, t) ==
    [row EXCEPT !.external_task_id = parent_id, !.updated_at = t]

\* The row of the Lead with the external identifiers set (the UPDATE also
\* fires onupdate of updated_at).
WrittenBack(row, parent_id, sub_ids, t) ==
    [row EXCEPT !.external_task_id = parent_id,
                !.external_subtask_ids_json = ListSetter(sub_ids),
                !.updated_at = t]

\* What the store does with the write-back: it commits; the UPDATE fails in
\* the flush; the COMMIT itself fails.
DbOutcomes == {"ok", "flush_error", "commit_error"}

\* lead.external_task_id = ...; sess.add; sess.commit; sess.refresh.  Both
\* failures end in the catch-all except clause, which does not roll back: a
\* failed flush leaves the session inactive and the Lead expired, so its
\* attributes cannot be read any more; a failed COMMIT has rolled the
\* transaction back itself and the Lead is read again from its row.
WriteBack(r) ==
    /\ scenario = "app"
    /\ req[r].pc = "writeback"
    /\ \E db \in DbOutcomes :
         LET rec == req[r]
             at == {i \in 1..Len(leads) : leads[i].id = rec.lead.id}
         IN IF db = "ok" /\ at # {}
            THEN LET i == CHOOSE i \in at : TRUE
                     row == WrittenBack(leads[i], rec.parent_id, rec.sub_ids, now)
                 IN /\ leads' = [leads EXCEPT ![i] = row]
                    /\ req' = [req EXCEPT ![r] =
                                 Respond([rec EXCEPT !.lead = row, !.sync = "ok"])]
            ELSE /\ UNCHANGED leads
                 /\ req' = [req EXCEPT ![r] =
                              Respond([rec EXCEPT
                                         !.sync = "Exception",
                                         !.session = IF db = "commit_error"
                                                     THEN "active" ELSE "inactive"])]
    /\ UNCHANGED <<scenario, settings, now, unit>>

\* Time passes.  A tick is half a day and a delivery lasts minutes at most:
\* the clock is advanced between deliveries.
Tick ==
    /\ scenario = "app"
    /\ now < MaxNow
    /\ \A r \in Req : req[r].pc \in {"idle", "done"}
    /\ now' = now + 1
    /\ UNCHANGED <<scenario, settings, leads, req, unit>>

\* ------------------------------------------------------------------------
\* A client used on its own
\* ------------------------------------------------------------------------
Tokens == {<<>>, <<" ">>, <<"t">>}

ListIds == {<<>>, <<"9">>}

UnitCreateTask(token, list_id, max_retries, resps) ==
    /\ scenario = "unit"
    /\ unit.phase = "idle"
    /\ unit' = [phase |-> "done",
                token |-> token, list_id |-> list_id, max_retries |-> max_retries,
                resps |-> resps,
                result |-> create_task(ClickUpClient(token, list_id, max_retries),
                                       post_with_retries(max_retries, resps))]
    /\ UNCHANGED <<scenario, settings, now, leads, req>>

\* Deliveries are numbered in the order they arrive.
IsNext(r) == req[r].pc = "idle" /\ \A q \in Req : q < r => req[q].pc # "idle"

\* A webhook request.
Webhook(r) ==
    /\ scenario = "app"
    /\ IsNext(r)
    /\ \E in \in WebhookInputs : Deliver(r, "webhook", in[1], in[2])

\* A direct call of create_or_get_lead.
DirectCall(r) ==
    /\ scenario = "app"
    /\ IsNext(r)
    /\ \E payload \in DirectInputs : Deliver(r, "direct", None, payload)

\* create_task on a client of any configuration, meeting any responses.
UnitCall ==
    /\ scenario = "unit"
    /\ unit.phase = "idle"
    /\ \E token \in Tokens, list_id \in ListIds, max_retries \in 1..MaxBudget :
         \E resps \in UnitRespSeqs(max_retries) :
           UnitCreateTask(token, list_id, max_retries, resps)

Next ==
    \/ \E r \in Req : Webhook(r)
    \/ \E r \in Req : DirectCall(r)
    \/ \E r \in Req : ResolveConflict(r)
    \/ \E r \in Req : CreateParent(r)
    \/ \E r \in Req : CreateSubtask(r)
    \/ \E r \in Req : WriteBack(r)
    \/ Tick
    \/ UnitCall

Spec == Init /\ [][Next]_vars

\* ------------------------------------------------------------------------
\* The store under an outside writer
\* ------------------------------------------------------------------------
\* The edge case create_or_get_lead provides for: "unique error but row not
\* found", the conflicting row having been deleted by another client of the
\* database between the failed INSERT and the SELECT.

\* The row a direct call left in the store at tick t.
StoredAt(payload, t, id) ==
    [NewLead(DataOf("direct", payload),
             generate_dedupe_key(DataOf("direct", payload), t), t)
       EXCEPT !.id = id]

\* Stores that earlier runs of the service left behind: empty; one lead of
\* two days ago; the same and a lead of that address and name of today.
StoresLeft ==
    {<<>>,
     <<StoredAt(BlankName, 0, 1)>>,
     <<StoredAt(BlankName, 0, 1), StoredAt(BlankName, 2, 2)>>}

\* The service starts at tick 2 on such a store, the tracker not configured.
InitRace ==
    /\ scenario = "app"
    /\ settings = Settings(<<"s">>, <<"t">>, <<>>, <<"a", ";", " ", "b">>)
    /\ now = 2
    /\ leads \in StoresLeft
    /\ req = [r \in Req |-> IdleReq]
    /\ unit = IdleUnit

\* Another client of the database deletes a row.
DeleteRow(i) ==
    /\ i \in DOMAIN leads
    /\ leads' = SubSeq(leads, 1, i - 1) \o SubSeq(leads, i + 1, Len(leads))
    /\ UNCHANGED <<scenario, settings, now, req, unit>>

NextRace ==
    \/ \E r \in Req : Webhook(r)
    \/ \E r \in Req : DirectCall(r)
    \/ \E r \in Req : ResolveConflict(r)
    \/ \E r \in Req : CreateParent(r)
    \/ \E i \in 1..(NumReq + 2) : DeleteRow(i)

SpecRace == InitRace /\ [][NextRace]_vars

\* ------------------------------------------------------------------------
\* Vocabulary of the properties
\* ------------------------------------------------------------------------
Done(r) == req[r].pc = "done"

\* create_or_get_lead was entered / has returned.
Called(r) == req[r].key # None

Returned(r) == Done(r) /\ req[r].result = "returned"

NormEmail(p) == lower(strip(p.correo))

TrimName(p) == strip(p.nombre)

SameLead(r1, r2) ==
    /\ NormEmail(req[r1].payload) = NormEmail(req[r2].payload)
    /\ TrimName(req[r1].payload) = TrimName(req[r2].payload)
    /\ DayOf(req[r1].at) = DayOf(req[r2].at)

\* A delivery with a schema-valid body that is not stopped by the secret.
ValidDelivery(r) ==
    /\ req[r].pc # "idle"
    /\ LeadCreate(req[r].payload).ok
    /\ req[r].via = "webhook" =>
         (settings.FORM_SHARED_SECRET # <<>> /\ req[r].header = settings.FORM_SHARED_SECRET)

HasRow(id) == \E row \in Rows(leads) : row.id = id

RowOf(id) == CHOOSE row \in Rows(leads) : row.id = id

SyncFieldsNull(row) ==
    /\ row.external_task_id = None
    /\ row.external_subtask_ids_json = None
    /\ row.external_task_url = None
    /\ row.status_api = None

Unconfigured(token, list_id) == strip(token) = <<>> \/ strip(list_id) = <<>>

\* ------------------------------------------------------------------------
\* C1. Two successive deliveries of the same lead
\* ------------------------------------------------------------------------
\* C1 (as claimed): for every valid payload, when a delivery r2 arrives after
\* a delivery r1 of the same normalized email, trimmed name and UTC date has
\* ended, and r1 was the first delivery of that lead, then r1 returned
\* created = true, r2 returned created = false, both returned the same id,
\* and a webhook answered 201 for r1 and 200 for r2.
C1_SuccessiveDuplicate ==
    \A r1 \in Req, r2 \in Req :
      ( /\ r1 # r2 /\ Done(r1) /\ Done(r2)
        /\ ValidDelivery(r1) /\ ValidDelivery(r2)
        /\ r1 \in req[r2].after
        /\ SameLead(r1, r2)
        /\ \A q \in Req \ {r1, r2} : Done(q) /\ ValidDelivery(q) => ~SameLead(q, r1) )
      => /\ Returned(r1) /\ Returned(r2)
         /\ req[r1].created /\ ~req[r2].created
         /\ req[r1].lead.id = req[r2].lead.id
         /\ req[r1].via = "webhook" => req[r1].status = 201
         /\ req[r2].via = "webhook" => req[r2].status = 200

\* ------------------------------------------------------------------------
\* C2. Concurrent deliveries with one dedupe key
\* ------------------------------------------------------------------------
\* The calls that computed the dedupe key of call r.
SameKey(r) == {q \in Req : req[q].key = req[r].key}

\* C2: among the concurrent create_or_get_lead calls that compute one dedupe
\* key, exactly one has created = true, in every interleaving; none raises,
\* and every other call returns created = false with the id of the row of
\* that one.
C2_OneWinner ==
    \A r \in Req :
      Called(r)
      => /\ Cardinality({w \in SameKey(r) : req[w].created}) = 1
         /\ Done(r) =>
              /\ Returned(r)
              /\ \A w \in SameKey(r) : req[w].created => req[r].lead.id = req[w].lead.id
              /\ HasRow(req[r].lead.id)
              /\ RowOf(req[r].lead.id).dedupe_key = req[r].key

\* Two calls with one key that overlapped (the second arrived before the
\* first had ended) and have both ended.
C2_Witness ==
    \E r1 \in Req, r2 \in Req :
      /\ r1 < r2 /\ Done(r1) /\ Done(r2)
      /\ Called(r1) /\ req[r1].key = req[r2].key
      /\ r1 \notin req[r2].after
      /\ req[r1].created /\ ~req[r2].created

\* ------------------------------------------------------------------------
\* C3. The sync never fails the delivery
\* ------------------------------------------------------------------------
\* C3 (as claimed): whatever the tracker and the write-back do, a delivery
\* that created its lead ends with create_or_get_lead returning
\* (lead, created = true), the row committed, and 201 from the webhook.
C3_SyncNeverFailsDelivery ==
    \A r \in Req :
      (Done(r) /\ req[r].created)
      => /\ Returned(r)
         /\ HasRow(req[r].lead.id)
         /\ req[r].via = "webhook" => req[r].status = 201

\* ------------------------------------------------------------------------
\* C4. The shared secret
\* ------------------------------------------------------------------------
\* The X-Form-Secret header of a webhook request is missing or differs from
\* the configured secret.
BadHeader(rec) == rec.via = "webhook" /\ rec.header # settings.FORM_SHARED_SECRET

\* A bad-header request left no trace: create_or_get_lead was not entered,
\* no Lead was handed back, no request went to the tracker.
NoTrace(rec) == rec.key = None /\ rec.lead = NoLead /\ rec.calls = <<>>

\* C4 (as claimed): a webhook request whose X-Form-Secret header is missing
\* or differs from the configured secret always gets 401 and leaves no lead
\* and no external call.
C4_BadHeaderAlways401 ==
    \A r \in Req :
      (Done(r) /\ BadHeader(req[r])) => (req[r].status = 401 /\ NoTrace(req[r]))

\* The step in which a bad-header request is answered changes neither the
\* stored leads nor the external calls of any delivery.
C4_RejectedStep ==
    \A r \in Req :
      (req[r].pc = "idle" /\ req'[r].pc # "idle" /\ BadHeader(req'[r]))
      => /\ req'[r].pc = "done"
         /\ leads' = leads
         /\ \A q \in Req : req'[q].calls = req[q].calls

\* C4 (amended): a webhook request whose X-Form-Secret header is missing or
\* differs from the configured secret gets 401 when its body passes the
\* schema and 422 when it does not; in both cases the stored leads and the
\* external calls are the same after the request as before it.
C4_BadHeaderRejected ==
    /\ [](\A r \in Req :
            (Done(r) /\ BadHeader(req[r]))
            => /\ req[r].status = IF LeadCreate(req[r].payload).ok THEN 401 ELSE 422
               /\ NoTrace(req[r]))
    /\ [][C4_RejectedStep]_vars

\* A request without the header and one with a wrong header were answered
\* 401 after an authorized delivery had stored a lead.
C4_Witness ==
    \E r \in Req :
      /\ Done(r) /\ BadHeader(req[r]) /\ req[r].status = 401
      /\ settings.FORM_SHARED_SECRET # <<>>
      /\ leads # <<>>
      /\ \E q \in Req : q # r /\ req[q].calls # <<>>

\* ------------------------------------------------------------------------
\* C5. The retry loop
\* ------------------------------------------------------------------------
\* Number of POSTs of a trace.
Posts(trace) == Cardinality({i \in 1..Len(trace) : trace[i][1] = "POST"})

\* A failure the retry policy names: network error, HTTP 429, HTTP 5xx.
RetryableFailure(resp) ==
    \/ resp.net # "ok"
    \/ resp.status = 429
    \/ (resp.status >= 500 /\ resp.status <= 599)

Success2xx(resp) == resp.net = "ok" /\ resp.status >= 200 /\ resp.status <= 299

\* The first 2xx response arrives at attempt k after retryable failures only.
FirstSuccessAt(resps, k) ==
    /\ k \in DOMAIN resps
    /\ Success2xx(resps[k])
    /\ \A j \in 1..(k - 1) : RetryableFailure(resps[j])

\* The bodies that are JSON documents.
JsonBodies == {"task", "noid", "list"}

UnitConfiguredDone ==
    /\ scenario = "unit" /\ unit.phase = "done"
    /\ ~Unconfigured(unit.token, unit.list_id)

\* C5 (as claimed): a create_task call of a configured client issues at most
\* max_retries POSTs and returns or raises; when the first 2xx response
\* arrives at attempt k <= max_retries after retryable failures only, the
\* call returns the parsed body of that response after exactly k POSTs.
C5_ReturnsParsedBody ==
    UnitConfiguredDone =>
      /\ Posts(unit.result.trace) <= unit.max_retries
      /\ \A k \in 1..unit.max_retries :
           FirstSuccessAt(unit.resps, k)
           => /\ Posts(unit.result.trace) = k
              /\ unit.result.kind = "return"
              /\ unit.result.data = unit.resps[k].body

\* C5 (amended): a create_task call of a configured client issues at most
\* max_retries POSTs and returns or raises; when the first 2xx response
\* arrives at attempt k <= max_retries after retryable failures only, the
\* call ends after exactly k POSTs: it returns the parsed body of that
\* response when the body is JSON, and raises the decode error of
\* resp.json() when it is not.
C5_EndsAtFirst2xx ==
    UnitConfiguredDone =>
      /\ Posts(unit.result.trace) <= unit.max_retries
      /\ unit.result.kind \in {"return", "ClickUpError", "JSONDecodeError"}
      /\ \A k \in 1..unit.max_retries :
           FirstSuccessAt(unit.resps, k)
           => /\ Posts(unit.result.trace) = k
              /\ IF unit.resps[k].body \in JsonBodies
                 THEN /\ unit.result.kind = "return"
                      /\ unit.result.data = unit.resps[k].body
                 ELSE unit.result.kind = "JSONDecodeError"

\* 500, 500, then 200 with a task: returned after three POSTs.
C5_Witness ==
    /\ UnitConfiguredDone
    /\ unit.max_retries = DefaultMaxRetries
    /\ unit.resps = <<HttpResponse(500, "-"), HttpResponse(500, "-"), HttpResponse(200, "task")>>
    /\ unit.result.kind = "return" /\ unit.result.data = "task"
    /\ Posts(unit.result.trace) = 3

\* ------------------------------------------------------------------------
\* C6. The unconfigured client
\* ------------------------------------------------------------------------
\* C6: when the token or the list id of the client is empty after trimming,
\* create_task returns the result flagged skipped without any POST; the sync
\* of a new lead then makes no external call and leaves every external-sync
\* field of the lead null.
C6_UnconfiguredSkips ==
    /\ (scenario = "unit" /\ unit.phase = "done" /\ Unconfigured(unit.token, unit.list_id))
       => /\ unit.result.kind = "return" /\ unit.result.data = "skipped"
          /\ unit.result.trace = <<>>
    /\ \A r \in Req :
         (req[r].created /\ Unconfigured(settings.CLICKUP_TOKEN, settings.CLICKUP_LIST_ID))
         => /\ req[r].calls = <<>>
            /\ HasRow(req[r].lead.id) /\ SyncFieldsNull(RowOf(req[r].lead.id))
            /\ Done(r) => (req[r].sync = "skipped" /\ SyncFieldsNull(req[r].lead))

\* A delivery created a lead under a blank token and has ended.
C6_Witness ==
    \E r \in Req :
      /\ Done(r) /\ req[r].created
      /\ strip(settings.CLICKUP_TOKEN) = <<>> /\ settings.CLICKUP_TOKEN # <<>>
      /\ req[r].sync = "skipped"

\* ------------------------------------------------------------------------
\* C7. Different addresses
\* ------------------------------------------------------------------------
\* C7: two create_or_get_lead calls whose inputs have different normalized
\* emails, in either order and whatever other rows exist, both return
\* created = true and return two distinct ids (no further call computes the
\* key of either).
C7_DifferentEmails ==
    \A r1 \in Req, r2 \in Req :
      ( /\ r1 # r2 /\ Called(r1) /\ Called(r2)
        /\ NormEmail(req[r1].payload) # NormEmail(req[r2].payload)
        /\ \A q \in Req \ {r1, r2} : req[q].key \notin {req[r1].key, req[r2].key} )
      => /\ req[r1].created /\ req[r2].created
         /\ req[r1].lead.id # req[r2].lead.id
         /\ req[r1].result # "raised" /\ req[r2].result # "raised"
         /\ Done(r1) => Returned(r1)
         /\ Done(r2) => Returned(r2)

\* Two calls with the same name on the same day, one address each, have
\* both returned.
C7_Witness ==
    \E r1 \in Req, r2 \in Req :
      /\ Returned(r1) /\ Returned(r2)
      /\ NormEmail(req[r1].payload) # NormEmail(req[r2].payload)
      /\ TrimName(req[r1].payload) = TrimName(req[r2].payload)
      /\ DayOf(req[r1].at) = DayOf(req[r2].at)
      /\ req[r1].lead.id # req[r2].lead.id

\* ------------------------------------------------------------------------
\* C8. The interests list
\* ------------------------------------------------------------------------
\* The list read back from the stored row of the lead of a delivery.
StoredInterests(r) == ListGetter(RowOf(req[r].lead.id).intereses_servicios_json)

\* The list in the response of the delivery.
ReturnedInterests(r) == LeadResponse(req[r].lead).intereses_servicios

\* A delivery that stored its own input and answered with it.
CreatedAndAnswered(r) ==
    /\ Returned(r) /\ req[r].created
    /\ req[r].via = "webhook" => req[r].status = 201

\* C8 (as claimed): the interests list given on input equals the list read
\* back from the stored lead and the list returned in the response, values
\* and order, for any list including the empty one.
C8_RoundTripIdentical ==
    \A r \in Req :
      CreatedAndAnswered(r)
      => /\ StoredInterests(r) = req[r].payload.intereses_servicios
         /\ ReturnedInterests(r) = req[r].payload.intereses_servicios

\* C8 (amended): the list read back from the stored lead and the list
\* returned in the response equal the input list, values and order, empty
\* list included, where a webhook delivery has each entry trimmed of its
\* surrounding whitespace and a direct call has it unchanged.
C8_RoundTripTrimmed ==
    \A r \in Req :
      CreatedAndAnswered(r)
      => LET given == IF req[r].via = "webhook"
                      THEN StripEach(req[r].payload.intereses_servicios)
                      ELSE req[r].payload.intereses_servicios
         IN /\ StoredInterests(r) = given
            /\ ReturnedInterests(r) = given

\* A webhook stored a list whose entries carry blanks, and a direct call one
\* with a quote character.
C8_Witness ==
    \E r1 \in Req, r2 \in Req :
      /\ CreatedAndAnswered(r1) /\ req[r1].via = "webhook" /\ req[r1].payload = Padded
      /\ CreatedAndAnswered(r2) /\ req[r2].via = "direct" /\ req[r2].payload = Other

\* ------------------------------------------------------------------------
\* C9. The address is stored lower-cased and trimmed
\* ------------------------------------------------------------------------
\* C9: an input email with capitals and surrounding whitespace is stored on
\* the row and handed back lower-cased and trimmed, through the webhook and
\* through a direct call of create_or_get_lead.
C9_EmailNormalized ==
    \A r \in Req :
      Returned(r)
      => /\ req[r].lead.correo = lower(strip(req[r].payload.correo))
         /\ HasRow(req[r].lead.id)
         /\ RowOf(req[r].lead.id).correo = lower(strip(req[r].payload.correo))
         /\ LeadResponse(req[r].lead).correo = lower(strip(req[r].payload.correo))

\* " A@X " was delivered by a direct call that created the lead, and again by
\* the webhook.
C9_Witness ==
    \E r1 \in Req, r2 \in Req :
      /\ Returned(r1) /\ req[r1].via = "direct" /\ req[r1].payload = Padded /\ req[r1].created
      /\ Returned(r2) /\ req[r2].via = "webhook" /\ req[r2].payload = Padded
      /\ req[r1].lead.correo = <<"a", "@", "x">>

\* ------------------------------------------------------------------------
\* C10. The sync runs in the creating delivery only
\* ------------------------------------------------------------------------
\* The requests for a parent task of a row, over all deliveries.
ParentRequests(row) ==
    {<<r, i>> \in Req \X (1..(1 + Len(DefaultSubtasks) + 2)) :
       /\ req[r].lead # NoLead /\ req[r].lead.id = row.id
       /\ i \in DOMAIN req[r].calls
       /\ req[r].calls[i].name = task_name(row)}

C10_State ==
    /\ \A r \in Req :
         /\ (req[r].pc # "idle" /\ ~req[r].created)
            => (req[r].calls = <<>> /\ req[r].sync = "-")
         /\ (Done(r) /\ req[r].created /\ req[r].sync # "ok")
            => SyncFieldsNull(RowOf(req[r].lead.id))
    /\ \A row \in Rows(leads) : Cardinality(ParentRequests(row)) <= 1

\* A step of a delivery that did not create the lead writes no row.
C10_Step ==
    \A r \in Req : (req'[r] # req[r] /\ ~req'[r].created) => leads' = leads

\* C10: the sync runs only in the delivery that created the lead: a
\* delivery resolved to created = false sends no POST and writes no
\* external-sync field; at most one parent task is ever requested per lead
\* row; a lead whose sync failed keeps null external-sync fields in every
\* later state.
C10_SyncOnlyWhenCreated == [] C10_State /\ [][C10_Step]_vars

\* A lead whose sync failed after the parent request was delivered again
\* and resolved to the existing row.
C10_Witness ==
    \E r1 \in Req, r2 \in Req :
      /\ Done(r1) /\ req[r1].created /\ req[r1].sync \in {"ClickUpError", "Exception"}
      /\ req[r1].calls # <<>>
      /\ Returned(r2) /\ ~req[r2].created /\ req[r2].lead.id = req[r1].lead.id
      /\ r1 \in req[r2].after

\* ------------------------------------------------------------------------
\* C11. A 4xx status other than 429 ends the call
\* ------------------------------------------------------------------------
NonRetryable4xx(resp) ==
    resp.net = "ok" /\ resp.status >= 400 /\ resp.status <= 499 /\ resp.status # 429

\* Number of backoff sleeps of a trace.
Sleeps(trace) == Cardinality({i \in 1..Len(trace) : trace[i][1] = "SLEEP"})

\* Attempt k is made and meets resps[k]: every earlier attempt was retried.
AttemptMade(resps, k) ==
    k \in DOMAIN resps /\ \A j \in 1..(k - 1) : RetryableFailure(resps[j])

\* C11: when attempt k receives an HTTP 4xx status other than 429,
\* create_task makes no further POST and no backoff sleep after it and fails
\* with ClickUpError, whatever the number of attempts left.
C11_AbortOn4xx ==
    UnitConfiguredDone =>
      \A k \in 1..unit.max_retries :
        (AttemptMade(unit.resps, k) /\ NonRetryable4xx(unit.resps[k]))
        => /\ unit.result.kind = "ClickUpError"
           /\ Posts(unit.result.trace) = k
           /\ Sleeps(unit.result.trace) = k - 1
           /\ unit.result.trace[Len(unit.result.trace)] = <<"POST", k>>

\* 500, then 400, with a third attempt left that would have met 200.
C11_Witness ==
    /\ UnitConfiguredDone
    /\ unit.max_retries = DefaultMaxRetries
    /\ unit.resps = <<HttpResponse(500, "-"), HttpResponse(400, "-"), HttpResponse(200, "task")>>
    /\ unit.result.kind = "ClickUpError"
    /\ unit.result.trace = << <<"POST", 1>>, <<"SLEEP", 500>>, <<"POST", 2>> >>

\* ------------------------------------------------------------------------
\* C12. What the ClickUpError carries
\* ------------------------------------------------------------------------
\* What failed in an attempt: the network error, or the HTTP status.
FailureOf(resp) == IF resp.net # "ok" THEN resp.net ELSE "http"

\* C12 (as claimed): when create_task ends without a 2xx response, it fails
\* with a ClickUpError that carries the number of attempts made and the
\* underlying error or message of the last failed attempt.
C12_ErrorCarriesAttempts ==
    ( /\ UnitConfiguredDone
      /\ \A i \in 1..Posts(unit.result.trace) : ~Success2xx(unit.resps[i]) )
    => /\ unit.result.kind = "ClickUpError"
       /\ unit.result.attempts = Posts(unit.result.trace)
       /\ unit.result.last_exc = FailureOf(unit.resps[Posts(unit.result.trace)])

\* ------------------------------------------------------------------------
\* C13. The empty secret
\* ------------------------------------------------------------------------
EmptySecret == settings.FORM_SHARED_SECRET = <<>>

\* C13 (as claimed): when the configured shared secret is empty, every
\* webhook call is answered 401 and persists nothing, whatever the
\* X-Form-Secret header holds.
C13_EmptySecretAlways401 ==
    \A r \in Req :
      (EmptySecret /\ Done(r) /\ req[r].via = "webhook")
      => (req[r].status = 401 /\ NoTrace(req[r]))

\* Under the empty secret the step of a webhook call ends it and leaves the
\* stored leads as they were.
C13_WebhookStep ==
    \A r \in Req :
      (EmptySecret /\ req[r].pc = "idle" /\ req'[r].via = "webhook")
      => (req'[r].pc = "done" /\ leads' = leads)

\* C13 (amended): when the configured shared secret is empty, every webhook
\* call is rejected and persists nothing, whatever the X-Form-Secret header
\* holds (absent, empty string, or any value): with 401 when its body is a
\* valid LeadCreate and with 422 when it is not.
C13_EmptySecretRejectsAll ==
    /\ [](\A r \in Req :
            (EmptySecret /\ Done(r) /\ req[r].via = "webhook")
            => /\ req[r].status = IF LeadCreate(req[r].payload).ok THEN 401 ELSE 422
               /\ NoTrace(req[r]))
    /\ [][C13_WebhookStep]_vars

\* Under the empty secret a call with the empty string as header and one
\* with a value were both answered 401.
C13_Witness ==
    /\ EmptySecret
    /\ \E r1 \in Req, r2 \in Req :
         /\ Done(r1) /\ req[r1].via = "webhook" /\ req[r1].header = <<>>
         /\ Done(r2) /\ req[r2].via = "webhook" /\ req[r2].header = <<"s">>
         /\ req[r1].status = 401 /\ req[r2].status = 401

\* ------------------------------------------------------------------------
\* C14. One row per dedupe key
\* ------------------------------------------------------------------------
RowsWithKey(key) == {i \in DOMAIN leads : leads[i].dedupe_key = key}

\* C14: in every reachable state of the store no two lead rows have the same
\* dedupe_key, and a key for which some delivery has returned has exactly
\* one row.
C14_OneRowPerKey ==
    /\ \A i \in DOMAIN leads, j \in DOMAIN leads :
         i # j => leads[i].dedupe_key # leads[j].dedupe_key
    /\ \A r \in Req : Returned(r) => Cardinality(RowsWithKey(req[r].key)) = 1

\* The same lead was delivered at two different hours of one day, both
\* deliveries have returned, and the store holds one row.
C14_Witness ==
    \E r1 \in Req, r2 \in Req :
      /\ r1 # r2 /\ Returned(r1) /\ Returned(r2)
      /\ req[r1].key = req[r2].key
      /\ req[r1].at # req[r2].at
      /\ Len(leads) = 1

\* ------------------------------------------------------------------------
\* C15. Persistence precedes the sync
\* ------------------------------------------------------------------------
\* A delivery that sent a request to the tracker had inserted its row; a
\* delivery whose insert conflicted has sent none.
C15_State ==
    \A r \in Req :
      /\ req[r].calls # <<>>
         => /\ req[r].created
            /\ HasRow(req[r].lead.id)
            /\ RowOf(req[r].lead.id).dedupe_key = req[r].key
      /\ (req[r].pc = "conflict" \/ req[r].result = "raised" \/ ~req[r].created)
         => req[r].calls = <<>>

\* The step that sends a request finds the row of the delivery in the store.
C15_Step ==
    \A r \in Req :
      req'[r].calls # req[r].calls
      => /\ req[r].created
         /\ \E i \in DOMAIN leads : leads[i].id = req[r].lead.id /\ leads[i] = leads'[i]

\* C15: within one delivery no external POST is issued before the insert of
\* the lead row has committed; if the insert fails or conflicts, no external
\* POST is issued at all.
C15_PersistBeforeSync == [] C15_State /\ [][C15_Step]_vars

\* One delivery is between its parent request and its subtasks while another
\* has met the unique index and not yet resolved the conflict.
C15_Witness ==
    \E r \in Req, q \in Req :
      /\ req[r].pc = "subtasks" /\ req[r].calls # <<>>
      /\ req[q].pc = "conflict" /\ req[q].key = req[r].key

\* ------------------------------------------------------------------------
\* C16. Order of the subtasks and of their identifiers
\* ------------------------------------------------------------------------
\* The identifier a response to the request for `title` carries, or the empty
\* string of a response without identifier.
IdOrEmpty(title) == {<<>>, <<"#">> \o title}

\* The requests sent so far are the parent and then the titles in list
\* order, and ids holds one entry per subtask requested, in that order.
InListOrder(rec, ids) ==
    LET titles == subtasks_from_env(settings)
    IN /\ Len(rec.calls) = 1 + Len(ids)
       /\ Len(ids) <= Len(titles)
       /\ rec.calls[1].name = task_name(rec.lead)
       /\ rec.calls[1].parent = None
       /\ \A i \in 1..Len(ids) :
            /\ rec.calls[1 + i].name = titles[i]
            /\ ids[i] \in IdOrEmpty(titles[i])

\* C16: in a successful sync the subtasks are requested strictly after the
\* parent task and in the configured list order, and the subtask identifier
\* list written back to the lead has one entry per configured title, in that
\* order, with the empty string where a response carried no identifier.
C16_SubtasksInOrder ==
    \A r \in Req :
      /\ req[r].pc \in {"subtasks", "writeback"} => InListOrder(req[r], req[r].sub_ids)
      /\ (Done(r) /\ req[r].sync = "ok")
         => LET ids == ListGetter(RowOf(req[r].lead.id).external_subtask_ids_json)
            IN /\ InListOrder(req[r], ids)
               /\ Len(ids) = Len(subtasks_from_env(settings))
               /\ ids = ListGetter(req[r].lead.external_subtask_ids_json)

\* A sync under SUBTASKS "a; b" ended with the identifier of the first
\* subtask and the empty string for the second, whose response had none.
C16_Witness ==
    \E r \in Req :
      /\ Done(r) /\ req[r].sync = "ok"
      /\ settings.SUBTASKS = <<"a", ";", " ", "b">>
      /\ Len(req[r].calls) = 3
      /\ req[r].calls[2].name = <<"a">> /\ req[r].calls[3].name = <<"b">>
      /\ ListGetter(RowOf(req[r].lead.id).external_subtask_ids_json)
           = << <<"#", "a">>, <<>> >>

\* ------------------------------------------------------------------------
\* C17. The parent reference of the subtasks
\* ------------------------------------------------------------------------
\* C17 (as claimed): every subtask creation request of a sync carries a
\* parent reference, equal to the identifier of the parent task created in
\* that sync, also when the 2xx response of the parent had no identifier.
C17_SubtasksCarryParent ==
    \A r \in Req :
      req[r].pc \in {"subtasks", "writeback"}
      => \A i \in 2..Len(req[r].calls) :
           /\ req[r].calls[i].parent # None
           /\ req[r].calls[i].parent = req[r].parent_id

\* ------------------------------------------------------------------------
\* C18. The due date
\* ------------------------------------------------------------------------
\* C18: in a sync the request for the first subtask of the list, and only
\* that one, carries a due timestamp, which is the time of the sync plus 24
\* hours (two ticks of half a day) in milliseconds; the parent request and
\* every later subtask request carry no due date.
C18_DueOnFirstSubtaskOnly ==
    \A r \in Req :
      \A i \in DOMAIN req[r].calls :
        req[r].calls[i].due_date =
          IF i = 2 THEN (req[r].at + 2) * (12 * 3600 * 1000) ELSE NoDue

\* A sync at tick 1 has requested the parent and both subtasks.
C18_Witness ==
    \E r \in Req :
      /\ req[r].at = 1
      /\ Len(req[r].calls) = 3
      /\ req[r].calls[1].due_date = NoDue
      /\ req[r].calls[2].due_date = 3 * 43200000
      /\ req[r].calls[3].due_date = NoDue

\* ------------------------------------------------------------------------
\* C19. The external-sync fields change once
\* ------------------------------------------------------------------------
SyncFields(row) ==
    <<row.external_task_id, row.external_subtask_ids_json,
      row.external_task_url, row.status_api>>

\* The delivery that created the row.
CreatorOf(row, r) == req[r].created /\ req[r].lead # NoLead /\ req[r].lead.id = row.id

\* A row enters the store with null external-sync fields; a step that
\* changes them finds them null, leaves them set, and is the write-back of
\* the delivery that created the row.
C19_Step ==
    /\ \A i \in DOMAIN leads' :
         i \notin DOMAIN leads => SyncFieldsNull(leads'[i])
    /\ \A i \in DOMAIN leads :
         SyncFields(leads'[i]) # SyncFields(leads[i])
         => /\ SyncFieldsNull(leads[i])
            /\ ~SyncFieldsNull(leads'[i])
            /\ \E r \in Req :
                 /\ CreatorOf(leads[i], r)
                 /\ req[r].pc = "writeback" /\ req'[r].sync = "ok"

\* Set external-sync fields are those of a creating delivery whose sync
\* succeeded.
C19_State ==
    \A row \in Rows(leads) :
      ~SyncFieldsNull(row)
      => \E r \in Req : CreatorOf(row, r) /\ Done(r) /\ req[r].sync = "ok"

\* C19: over any sequence or interleaving of deliveries the external-sync
\* fields of a lead row change at most once after the creation of the row,
\* from null to their synced values, and only by the sync of the delivery
\* that created the row.
C19_SyncFieldsChangeOnce == [] C19_State /\ [][C19_Step]_vars

\* A row was synced by its creating delivery, and a later delivery of the
\* same lead has returned that row.
C19_Witness ==
    \E r1 \in Req, r2 \in Req :
      /\ Done(r1) /\ req[r1].created /\ req[r1].sync = "ok"
      /\ Returned(r2) /\ ~req[r2].created /\ req[r2].lead.id = req[r1].lead.id
      /\ r1 \in req[r2].after
      /\ ~SyncFieldsNull(RowOf(req[r1].lead.id))
      /\ req[r2].lead = RowOf(req[r1].lead.id)

\* ------------------------------------------------------------------------
\* C20. The write-back is all-or-nothing
\* ------------------------------------------------------------------------
BothUnset(row) == row.external_task_id = None /\ row.external_subtask_ids_json = None

\* No row holds a parent identifier without the list; a written list is that
\* of a creating delivery that requested the parent and every configured
\* subtask; a sync that failed has written nothing, whatever it had created.
C20_State ==
    /\ \A row \in Rows(leads) :
         /\ row.external_subtask_ids_json = None => row.external_task_id = None
         /\ row.external_subtask_ids_json # None
            => /\ Len(ListGetter(row.external_subtask_ids_json))
                    = Len(subtasks_from_env(settings))
               /\ \E r \in Req :
                    /\ CreatorOf(row, r) /\ req[r].sync = "ok"
                    /\ Len(req[r].calls) = 1 + Len(subtasks_from_env(settings))
    /\ \A r \in Req :
         (Done(r) /\ req[r].created /\ req[r].sync \in {"ClickUpError", "Exception", "skipped"})
         => BothUnset(RowOf(req[r].lead.id))

\* A step that writes either field finds both unset and writes both: the
\* parent identifier and the whole list of the delivery at its write-back.
C20_Step ==
    \A i \in DOMAIN leads :
      ( \/ leads'[i].external_task_id # leads[i].external_task_id
        \/ leads'[i].external_subtask_ids_json # leads[i].external_subtask_ids_json )
      => /\ BothUnset(leads[i])
         /\ \E r \in Req :
              /\ req[r].pc = "writeback" /\ req[r].lead.id = leads[i].id
              /\ Len(req[r].sub_ids) = Len(subtasks_from_env(settings))
              /\ Len(req[r].calls) = 1 + Len(req[r].sub_ids)
              /\ leads'[i].external_task_id = req[r].parent_id
              /\ leads'[i].external_subtask_ids_json = json_dumps(req[r].sub_ids)

\* C20: the write-back is all-or-nothing: in every reachable state the
\* parent-task identifier and the subtask identifier list of a lead are
\* either both still unset or both written by one commit, made after the
\* parent and every configured subtask were created; if the creation of the
\* parent or of any subtask fails, nothing is written, though the tasks
\* already created remain in the tracker.
C20_WriteBackAllOrNothing == [] C20_State /\ [][C20_Step]_vars

\* A sync failed at its second subtask after the parent and the first
\* subtask were created: the row has neither field.
C20_Witness ==
    \E r \in Req :
      /\ Done(r) /\ req[r].created /\ req[r].sync = "ClickUpError"
      /\ Len(req[r].calls) = 3
      /\ BothUnset(RowOf(req[r].lead.id))

\* ------------------------------------------------------------------------
\* C21. The identifier and the URL of the parent task
\* ------------------------------------------------------------------------
\* C21 (as claimed): after a successful sync the identifier and the URL of
\* the parent task that the tracker returned are both recorded on the lead
\* row.
C21_IdAndUrlRecorded ==
    \A r \in Req :
      (Done(r) /\ req[r].created /\ req[r].sync = "ok"
         /\ RowOf(req[r].lead.id).external_task_id # None)
      => /\ RowOf(req[r].lead.id).external_task_id = <<"#">> \o req[r].calls[1].name
         /\ RowOf(req[r].lead.id).external_task_url = <<"https://t/">> \o req[r].calls[1].name

\* ------------------------------------------------------------------------
\* C22. The resolution of a uniqueness conflict
\* ------------------------------------------------------------------------
\* The rows a conflict is resolved from: by key, by normalized email.
ByKey(rec) == {row \in Rows(leads) : row.dedupe_key = rec.key}

ByEmail(rec) == {row \in Rows(leads) : row.correo = NormEmail(rec.payload)}

\* The step that resolves the conflict of delivery r.
C22_Step ==
    \A r \in Req :
      (req[r].pc = "conflict" /\ req'[r] # req[r])
      => /\ leads' = leads
         /\ ~req'[r].created
         /\ IF ByKey(req[r]) # {}
            THEN /\ req'[r].result = "returned"
                 /\ req'[r].lead \in ByKey(req[r])
            ELSE IF ByEmail(req[r]) # {}
            THEN /\ req'[r].result = "returned"
                 /\ req'[r].lead \in ByEmail(req[r])
                 /\ \A other \in ByEmail(req[r]) :
                      other.created_at <= req'[r].lead.created_at
            ELSE /\ req'[r].result = "raised"
                 /\ req'[r].lead = NoLead

\* C22: when the insert hits the uniqueness conflict, create_or_get_lead
\* rolls back and returns (row with that dedupe_key, false) if one exists;
\* otherwise (most recently created row with the same normalized email,
\* false); if there is none either, the integrity failure propagates.
C22_ConflictResolution == [][C22_Step]_vars

\* The row a delivery conflicted with was deleted before its SELECT: it got,
\* with created = false, the most recent of two other rows of its address.
C22_Witness ==
    \E r \in Req :
      /\ Returned(r) /\ ~req[r].created
      /\ req[r].lead.dedupe_key # req[r].key
      /\ req[r].lead \in Rows(leads)
      /\ \E row \in Rows(leads) :
           row.correo = req[r].lead.correo /\ row.created_at < req[r].lead.created_at

\* ------------------------------------------------------------------------
\* C23. Without deletions the fallback is never taken
\* ------------------------------------------------------------------------
\* A delivery that awaits the resolution of its conflict has a row with its
\* key in the store; no delivery has raised; a delivery resolved as a
\* duplicate holds the stored row of its key.
C23_State ==
    \A r \in Req :
      /\ req[r].pc = "conflict" => ByKey(req[r]) # {}
      /\ req[r].result # "raised"
      /\ (Returned(r) /\ ~req[r].created)
         => /\ req[r].lead.dedupe_key = req[r].key
            /\ HasRow(req[r].lead.id)
            /\ RowOf(req[r].lead.id).dedupe_key = req[r].key

\* The resolution step takes the row found by the key.
C23_Step ==
    \A r \in Req :
      (req[r].pc = "conflict" /\ req'[r] # req[r])
      => (req'[r].result = "returned" /\ req'[r].lead \in ByKey(req[r]))

\* C23: in every execution where lead rows are never deleted, the lookup by
\* email and the re-raise are unreachable: every call that returns
\* created = false returns the row whose dedupe_key is the key computed for
\* that call.
C23_FallbackUnreachable == [] C23_State /\ [][C23_Step]_vars

\* A duplicate has returned the row of its key while the delivery that
\* created the row is still at its write-back.
C23_Witness ==
    \E r1 \in Req, r2 \in Req :
      /\ req[r1].created /\ req[r1].pc = "writeback"
      /\ Returned(r2) /\ ~req[r2].created
      /\ req[r2].key = req[r1].key
      /\ req[r2].lead.id = req[r1].lead.id

\* ------------------------------------------------------------------------
\* C24. A duplicate leaves the row as the first writer stored it
\* ------------------------------------------------------------------------
\* The payload fields and the timestamps of a row are those of the delivery
\* r that created it.
AsWrittenBy(row, r) ==
    LET data == DataOf(req[r].via, req[r].payload)
    IN /\ row.nombre = data.nombre
       /\ row.correo = NormEmail(req[r].payload)
       /\ row.telefono = data.telefono
       /\ ListGetter(row.intereses_servicios_json) = data.intereses_servicios
       /\ row.mensaje = data.mensaje
       /\ row.created_at = req[r].at
       /\ row.updated_at = req[r].at
       /\ row.dedupe_key = req[r].key

\* Every row is as its creating delivery wrote it, and a delivery resolved
\* as a duplicate holds that row.
C24_State ==
    /\ \A row \in Rows(leads) :
         \E r \in Req : CreatorOf(row, r) /\ AsWrittenBy(row, r)
    /\ \A r \in Req :
         (Returned(r) /\ ~req[r].created)
         => \E w \in Req :
              /\ CreatorOf(req[r].lead, w) /\ AsWrittenBy(req[r].lead, w)
              /\ SyncFields(req[r].lead) = SyncFields(RowOf(req[r].lead.id))
                   \/ SyncFieldsNull(req[r].lead)

\* No step of a call of create_or_get_lead that ends with created = false
\* changes the table.
C24_Step ==
    \A r \in Req :
      (req'[r] # req[r] /\ req'[r].key # None /\ ~req'[r].created)
      => leads' = leads

\* C24: a delivery resolved as a duplicate (created = false) leaves the
\* stored row unchanged: name, email, phone, interests, message, timestamps
\* and external-sync fields keep the values of the first writer, also when
\* the payload of the duplicate has another phone, interests or message.
C24_DuplicateLeavesRow == [] C24_State /\ [][C24_Step]_vars

\* A lead stored without phone, interests and message was delivered again
\* with all three, and the row has none of them.
C24_Witness ==
    \E r1 \in Req, r2 \in Req :
      /\ Returned(r1) /\ req[r1].created /\ req[r1].payload = Plain
      /\ Returned(r2) /\ ~req[r2].created /\ req[r2].payload = Padded
      /\ req[r2].lead.id = req[r1].lead.id
      /\ RowOf(req[r1].lead.id).telefono = None
      /\ RowOf(req[r1].lead.id).intereses_servicios_json = <<"[", "]">>
      /\ req[r2].lead.telefono = None

\* ------------------------------------------------------------------------
\* C25. The backoff between attempts
\* ------------------------------------------------------------------------
\* The delay the schedule (0.5 s, 2 s, 5 s) gives after the k-th attempt
\* failed, the last value standing for every later attempt.
DelayAfter(k) == CASE k = 1 -> 500 [] k = 2 -> 2000 [] OTHER -> 5000

\* C25: of what _post_with_retries does, in order: the attempts are numbered
\* from 1, between attempt k and attempt k+1 there is exactly one delay, the
\* one of the schedule at the index of the failed attempt k (capped at the
\* last value), and nothing follows the last POST, whether it was the final
\* attempt, a success or a non-retryable response.
C25_BackoffSchedule ==
    (scenario = "unit" /\ unit.phase = "done")
    => LET trace == unit.result.trace
       IN /\ \A i \in 1..Len(trace) :
               trace[i] = IF i % 2 = 1
                          THEN <<"POST", (i + 1) \div 2>>
                          ELSE <<"SLEEP", DelayAfter(i \div 2)>>
          /\ Len(trace) > 0 => trace[Len(trace)][1] = "POST"
          /\ Sleeps(trace) = IF Len(trace) = 0 THEN 0 ELSE Posts(trace) - 1

\* Five attempts: four failures of either retryable kind, then a success;
\* the fourth delay is the last value of the schedule again.
C25_Witness ==
    /\ scenario = "unit" /\ unit.phase = "done"
    /\ unit.resps = <<HttpResponse(500, "-"), NetworkError("timeout"),
                      HttpResponse(500, "-"), NetworkError("timeout"),
                      HttpResponse(200, "task")>>
    /\ unit.result.kind = "return"
    /\ unit.result.trace =
         << <<"POST", 1>>, <<"SLEEP", 500>>, <<"POST", 2>>, <<"SLEEP", 2000>>,
            <<"POST", 3>>, <<"SLEEP", 5000>>, <<"POST", 4>>, <<"SLEEP", 5000>>,
            <<"POST", 5>> >>

\* ------------------------------------------------------------------------
\* C26. What the dedupe key depends on
\* ------------------------------------------------------------------------
\* Two calls with the same normalized address and the same trimmed name.
SamePerson(r1, r2) ==
    /\ NormEmail(req[r1].payload) = NormEmail(req[r2].payload)
    /\ TrimName(req[r1].payload) = TrimName(req[r2].payload)

\* C26: the dedupe key is a function of (normalized email, UTC date of
\* processing, trimmed name) and of nothing else: two calls have one key
\* exactly when they agree on the three, whatever their phone, interests and
\* message; the same address and name on two dates are two leads: the rows
\* returned have different ids, and a call that is the only one of its key
\* returns created = true.
C26_KeyOfEmailDateName ==
    \A r1 \in Req, r2 \in Req :
      (r1 # r2 /\ Called(r1) /\ Called(r2))
      => /\ req[r1].key = req[r2].key <=> SameLead(r1, r2)
         /\ (SamePerson(r1, r2) /\ DayOf(req[r1].at) # DayOf(req[r2].at)
               /\ Returned(r1) /\ Returned(r2))
            => /\ req[r1].lead.id # req[r2].lead.id
               /\ (\A q \in Req \ {r1} : req[q].key # req[r1].key)
                  => req[r1].created

\* The same address and name were delivered on two days, with a phone,
\* interests and a message the second time only; both deliveries created a
\* row.
C26_Witness ==
    \E r1 \in Req, r2 \in Req :
      /\ Returned(r1) /\ Returned(r2)
      /\ req[r1].payload = Plain /\ req[r2].payload = Padded
      /\ SamePerson(r1, r2)
      /\ DayOf(req[r1].at) < DayOf(req[r2].at)
      /\ req[r1].created /\ req[r2].created
      /\ req[r1].lead.id # req[r2].lead.id
      /\ HasRow(req[r1].lead.id) /\ HasRow(req[r2].lead.id)

====
